---- MODULE Spec2Model ----
\* File organizer (organize / undo / history) of file_organizer_enhanced.py,
\* modelled as a state machine over one target folder.
\*
\* File names are sequences of one-character strings, so that splitext, lower,
\* strip and startswith are computed as Python computes them.  A path inside the
\* target folder is a sequence of names (<<name>> is a top-level entry,
\* <<dir, name>> an entry of a subfolder).  The absolute path of a history file
\* is a sequence of text tokens, so that str.replace acts on the whole path.
EXTENDS Integers, Sequences, FiniteSets, TLC

\* ---------------------------------------------------------------- bounds
MaxPass == 2         \* completed non-dry-run organize passes
MaxAdd == 1          \* files the user adds between passes

\* ---------------------------------------------------------------- names
LOGS_DIR == <<".", "a", "i", "o", "f", "f", "i", "c", "e", "_", "l", "o", "g", "s">>

A_TXT == <<"a", ".", "t", "x", "t">>
B_TXT == <<"b", ".", "T", "X", "T">>
TXT == <<"t", "x", "t">>
LOGS_LIKE == LOGS_DIR \o <<"2">>

\* The file names the user may give to a top-level file.
FileNames == {A_TXT, B_TXT, TXT, LOGS_LIKE}

UpperCase == <<"A", "B", "C", "D", "E", "F", "G", "H", "I", "J", "K", "L", "M",
               "N", "O", "P", "Q", "R", "S", "T", "U", "V", "W", "X", "Y", "Z">>
LowerCase == <<"a", "b", "c", "d", "e", "f", "g", "h", "i", "j", "k", "l", "m",
               "n", "o", "p", "q", "r", "s", "t", "u", "v", "w", "x", "y", "z">>

\* str.lower() on one character and on a string
LowerChar(ch) ==
    IF \E i \in 1..26 : UpperCase[i] = ch
    THEN LowerCase[CHOOSE i \in 1..26 : UpperCase[i] = ch]
    ELSE ch

Lower(s) == [i \in 1..Len(s) |-> LowerChar(s[i])]

\* str.rfind(".") + 1 (0 when there is no dot)
LastDot(s) ==
    IF \E i \in 1..Len(s) : s[i] = "."
    THEN CHOOSE i \in 1..Len(s) : s[i] = "." /\ \A j \in (i+1)..Len(s) : s[j] # "."
    ELSE 0

\* os.path.splitext(fname)[1]: the suffix from the last dot on, unless every
\* character before that dot is a dot too (leading dots start no extension)
SplitExt(fname) ==
    LET d == LastDot(fname) IN
    IF d > 0 /\ \E j \in 1..(d-1) : fname[j] # "."
    THEN SubSeq(fname, d, Len(fname))
    ELSE <<>>

RECURSIVE LStripDots(_)
LStripDots(s) == IF s # <<>> /\ Head(s) = "." THEN LStripDots(Tail(s)) ELSE s

RECURSIVE RStripDots(_)
RStripDots(s) ==
    IF s # <<>> /\ s[Len(s)] = "." THEN RStripDots(SubSeq(s, 1, Len(s) - 1)) ELSE s

\* str.strip('.')
StripDots(s) == RStripDots(LStripDots(s))

NO_EXT == <<"n", "o", "_", "e", "x", "t">>

\* lines 47-49: the category folder name of a file name
Category(fname) ==
    LET ext == StripDots(Lower(SplitExt(fname))) IN
    IF ext = <<>> THEN NO_EXT ELSE ext

\* str.startswith
StartsWith(s, p) == Len(s) >= Len(p) /\ SubSeq(s, 1, Len(p)) = p

\* line 46: fpath.startswith(os.path.join(folder, LOGS_DIR)); both paths are
\* folder + "/" + name, so the test is a test of the names
InLogsByName(fname) == StartsWith(fname, LOGS_DIR)


\* os.listdir gives the entries in an order of its own, which is not the sorted
\* order; this is the order of the modelled directory
NameOrder == <<TXT, B_TXT, LOGS_DIR, A_TXT, NO_EXT, LOGS_LIKE>>

\* ---------------------------------------------------------------- filesystem
\* The target folder is a function from the paths that exist in it to what is
\* there: a directory, or a regular file whose content is identified by the
\* path and the generation it was created at.
NoData == [origin |-> <<>>, gen |-> 0]
Dir == [kind |-> "dir", data |-> NoData]
File(p, g) == [kind |-> "file", data |-> [origin |-> p, gen |-> g]]

EmptyFs == [p \in {} |-> Dir]

Exists(f, p) == p \in DOMAIN f
IsFile(f, p) == p \in DOMAIN f /\ f[p].kind = "file"
IsDir(f, p) == p \in DOMAIN f /\ f[p].kind = "dir"

\* f with entry e at path p (replacing what was there)
Put(f, p, e) == [q \in DOMAIN f \cup {p} |-> IF q = p THEN e ELSE f[q]]
\* f without path p
Drop(f, p) == [q \in DOMAIN f \ {p} |-> f[q]]

\* os.makedirs(p, exist_ok=True) for a top-level p inside an existing folder:
\* raises FileExistsError when p is a regular file
MakeDirsRaises(f, p) == IsFile(f, p)

MakeDirs(f, p) == IF Exists(f, p) THEN f ELSE Put(f, p, Dir)

\* os.listdir(folder)
ListDir(f) ==
    LET Present(n) == Exists(f, <<n>>) IN
    SelectSeq(NameOrder, Present)

\* shutil.move(src, dst) of a regular file.  dst being a directory means "move
\* into it"; an existing regular file at the destination is replaced (os.rename,
\* or copy and unlink where rename refuses).
MoveTarget(f, src, dst) == IF IsDir(f, dst) THEN dst \o <<src[Len(src)]>> ELSE dst

MoveRaises(f, src, dst) ==
    \/ ~Exists(f, src)
    \/ IsDir(f, dst) /\ Exists(f, MoveTarget(f, src, dst))
    \/ Len(MoveTarget(f, src, dst)) = 2 /\ ~IsDir(f, <<MoveTarget(f, src, dst)[1]>>)

ShutilMove(f, src, dst) == Drop(Put(f, MoveTarget(f, src, dst), f[src]), src)

\* ---------------------------------------------------------------- history files
Digits == <<"0", "1", "2", "3", "4", "5", "6", "7", "8", "9">>
DigitVal(d) == (CHOOSE i \in 1..10 : Digits[i] = d) - 1

\* line 61: strftime("%Y%m%dT%H%M%SZ"); the model keeps the two digits of the
\* seconds field, zero padded as strftime pads them
Timestamp(c) == <<Digits[((c \div 10) % 10) + 1], Digits[(c % 10) + 1]>>

\* line 62: f"history_{timestamp}.json", as text tokens
HistoryName(c) == <<"history_">> \o Timestamp(c) \o <<".json">>
\* The number of tokens of a history file name
NameLen == Len(HistoryName(0))

LogFileName == <<"organizer.log">>

\* The order of Python's string comparison on the texts of the log subdirectory:
\* digits first, then "history_" < "organizer.log" < "undone_"
TokenRank(t) ==
    IF \E i \in 1..10 : Digits[i] = t THEN DigitVal(t)
    ELSE IF t = ".json" THEN 10
    ELSE IF t = "history_" THEN 11
    ELSE IF t = "organizer.log" THEN 12
    ELSE 13

\* a < b on file names: the first differing token decides
NameLess(a, b) ==
    \E i \in 1..(IF Len(a) < Len(b) THEN Len(a) ELSE Len(b)) :
        /\ TokenRank(a[i]) < TokenRank(b[i])
        /\ \A j \in 1..(i-1) : a[j] = b[j]

\* line 79: the names that start with "history_"
IsHistoryName(n) == n[1] = "history_"
HistoryFiles(lg) == {n \in DOMAIN lg : IsHistoryName(n)}

\* line 83: sorted(...)[-1]
LastOf(names) == CHOOSE n \in names : \A m \in names : m = n \/ NameLess(m, n)

\* The absolute path of a file of the log subdirectory
LogPath(fld, name) == fld \o <<"/", ".aioffice_logs", "/">> \o name
DirName(p) == SubSeq(p, 1, Len(p) - NameLen)
BaseName(p) == SubSeq(p, Len(p) - NameLen + 1, Len(p))

\* line 99: str.replace("history_", "undone_") replaces every occurrence
StrReplace(p) == [i \in 1..Len(p) |-> IF p[i] = "history_" THEN "undone_" ELSE p[i]]

\* The target folders the commands are run on
PlainFolder == <<"/w/", "docs">>
HistoryFolder == <<"/w/", "history_", "docs">>
Folders == {PlainFolder, HistoryFolder}

\* ---------------------------------------------------------------- state
VARIABLES
    folder,     \* absolute path of the target folder (text tokens)
    root,       \* what the target path is: "missing", "file" or "dir"
    fs,         \* the entries of the target folder
    logFile,    \* organizer.log exists
    logs,       \* history and undone files of the log subdirectory: name -> content
    clock,      \* UTC second
    exitError,  \* the last command ended with an uncaught exception
    nPass,      \* non-dry-run organize passes completed so far (numbers the passes)
    nAdd,       \* files added by the user so far (numbers their contents)
    replayed    \* the passes whose history file an undo pass has replayed

vars == <<folder, root, fs, logFile, logs, clock, exitError, nPass, nAdd, replayed>>

NoLogs == [n \in {} |-> [actions |-> <<>>, pass |-> 0]]
NoPlan == <<>>

\* The program's world as one record, for the functions below
World == [root |-> root, fs |-> fs, logFile |-> logFile, logs |-> logs]

\* ---------------------------------------------------------------- setup_logging
\* lines 28-35: makedirs(folder/LOGS_DIR) creates the folder too, and raises when
\* the target path is a regular file; FileHandler creates organizer.log
SetupLoggingRaises(w) == w.root = "file"

SetupLogging(w) ==
    [w EXCEPT !.root = "dir", !.fs = MakeDirs(w.fs, <<LOGS_DIR>>), !.logFile = TRUE]

\* ---------------------------------------------------------------- scan_and_organize
\* lines 116-119: the values of --prefix; the default is the empty string
NoPrefix == <<>>
Prefixes == {NoPrefix, <<"x", "_">>}

\* A destination that carries the prefix in the file name
PrefixedDest(prefix, ext, fname) == <<ext, prefix \o fname>>

\* A planning step that creates no category folder
NoTargetDir(f, ext) == f

\* lines 50-51: target_dir = os.path.join(folder, ext); os.makedirs(target_dir)
MakeTargetDir(f, ext) == MakeDirs(f, <<ext>>)

\* line 52: dest = os.path.join(target_dir, fname); the prefix is not used
Dest(prefix, ext, fname) == <<ext, fname>>

\* lines 44-53: the planning loop; it creates every category folder as it goes
\* and stops with the exception of makedirs
RECURSIVE PlanLoop(_, _, _, _, _)
PlanLoop(f, names, i, actions, prefix) ==
    IF i > Len(names) THEN [fs |-> f, actions |-> actions, raised |-> FALSE]
    ELSE LET fname == names[i]
             ext == Category(fname)
         IN  IF IsFile(f, <<fname>>) /\ ~InLogsByName(fname)
             THEN IF MakeDirsRaises(f, <<ext>>)
                  THEN [fs |-> f, actions |-> actions, raised |-> TRUE]
                  ELSE PlanLoop(MakeTargetDir(f, ext), names, i + 1,
                                Append(actions, [src |-> <<fname>>,
                                                 dst |-> Dest(prefix, ext, fname)]),
                                prefix)
             ELSE PlanLoop(f, names, i + 1, actions, prefix)

\* One shutil.move inside try/except: fs after it and whether it succeeded.
\* denied: the files whose move fails for an external reason (permissions)
TryMove(f, src, dst, denied) ==
    IF src[Len(src)] \in denied \/ MoveRaises(f, src, dst)
    THEN [fs |-> f, ok |-> FALSE]
    ELSE [fs |-> ShutilMove(f, src, dst), ok |-> TRUE]

\* lines 63-67: every planned move is attempted.  An attempt records the action,
\* whether the folder of its destination was there when shutil.move was called,
\* and whether the move succeeded
RECURSIVE MoveLoop(_, _, _, _, _)
MoveLoop(f, actions, i, denied, attempts) ==
    IF i > Len(actions) THEN [fs |-> f, attempts |-> attempts]
    ELSE LET r == TryMove(f, actions[i].src, actions[i].dst, denied) IN
         MoveLoop(r.fs, actions, i + 1, denied,
                  Append(attempts, [act |-> actions[i],
                                    dirThere |-> IsDir(f, <<actions[i].dst[1]>>),
                                    ok |-> r.ok]))

\* A history that records only the moves that succeeded
HistoryOfSuccesses(actions, attempts) ==
    LET Moved(a) == \E i \in 1..Len(attempts) : attempts[i].act = a /\ attempts[i].ok IN
    SelectSeq(actions, Moved)

\* lines 68-69: what is written to the history file
HistoryContent(actions, attempts) == actions

\* lines 37-71.  The result: the world after the call, whether an exception
\* left the function, and what was returned and logged.
OrganizeBase(w) ==
    [w |-> w, raised |-> FALSE, errorLogged |-> FALSE, retNone |-> TRUE,
     ret |-> NoPlan, attempts |-> <<>>, wrote |-> FALSE]

ScanAndOrganize(w, dry, prefix, denied, now, pass) ==
    LET base == OrganizeBase(w) IN
    IF w.root # "dir" THEN [base EXCEPT !.errorLogged = TRUE]
    ELSE
      LET plan == PlanLoop(w.fs, ListDir(w.fs), 1, <<>>, prefix)
          planned == [base EXCEPT !.w.fs = plan.fs]
      IN
      IF plan.raised THEN [planned EXCEPT !.raised = TRUE]
      ELSE IF dry THEN [planned EXCEPT !.retNone = FALSE, !.ret = plan.actions]
      ELSE
        LET mv == MoveLoop(plan.fs, plan.actions, 1, denied, <<>>)
            moved == [planned EXCEPT !.w.fs = mv.fs, !.attempts = mv.attempts]
            content == [actions |-> HistoryContent(plan.actions, mv.attempts), pass |-> pass]
        IN
        IF ~IsDir(mv.fs, <<LOGS_DIR>>) THEN [moved EXCEPT !.raised = TRUE]
        ELSE [moved EXCEPT !.w.logs = (HistoryName(now) :> content) @@ w.logs,
                           !.wrote = TRUE, !.retNone = FALSE, !.ret = plan.actions]

\* ---------------------------------------------------------------- undo_last
\* lines 88-97: every recorded action whose destination exists is moved back;
\* an exception of one restoration is caught
RECURSIVE RestoreLoop(_, _, _, _, _)
RestoreLoop(f, actions, i, denied, attempts) ==
    IF i > Len(actions) THEN [fs |-> f, attempts |-> attempts]
    ELSE LET act == actions[i] IN
         IF ~Exists(f, act.dst)
         THEN RestoreLoop(f, actions, i + 1, denied,
                          Append(attempts, [act |-> act, outcome |-> "skipped"]))
         ELSE LET r == TryMove(f, act.dst, act.src, denied) IN
              RestoreLoop(r.fs, actions, i + 1, denied,
                          Append(attempts, [act |-> act,
                                            outcome |-> IF r.ok THEN "restored" ELSE "failed"]))

\* lines 99-100: os.replace(history_file, undone_file) raises when undone_file
\* lies in another directory: only the target folder exists, the folder that
\* StrReplace names instead does not
RenameRaises(w, fld, name) ==
    DirName(StrReplace(LogPath(fld, name))) # DirName(LogPath(fld, name))

RenameToUndone(w, fld, name) ==
    LET new == BaseName(StrReplace(LogPath(fld, name)))
        rest == DOMAIN w.logs \ {name}
    IN
    [w EXCEPT !.logs = [n \in rest \cup {new} |->
                           IF n = new THEN w.logs[name] ELSE w.logs[n]]]

\* lines 73-101
UndoBase(w) ==
    [w |-> w, raised |-> FALSE, errorLogged |-> FALSE, selected |-> <<>>,
     pass |-> 0, attempts |-> <<>>]

UndoLast(w, fld, denied) ==
    LET base == UndoBase(w) IN
    IF ~IsDir(w.fs, <<LOGS_DIR>>) THEN [base EXCEPT !.errorLogged = TRUE]
    ELSE IF HistoryFiles(w.logs) = {} THEN [base EXCEPT !.errorLogged = TRUE]
    ELSE
      LET sel == LastOf(HistoryFiles(w.logs))
          rs == RestoreLoop(w.fs, w.logs[sel].actions, 1, denied, <<>>)
          restored == [base EXCEPT !.w.fs = rs.fs, !.attempts = rs.attempts,
                                   !.selected = sel, !.pass = w.logs[sel].pass]
      IN
      IF RenameRaises(restored.w, fld, sel) THEN [restored EXCEPT !.raised = TRUE]
      ELSE [restored EXCEPT !.w = RenameToUndone(restored.w, fld, sel)]

\* ---------------------------------------------------------------- list_history
RECURSIVE SortedNames(_)
SortedNames(S) ==
    IF S = {} THEN <<>>
    ELSE LET m == CHOOSE n \in S : \A k \in S : k = n \/ NameLess(n, k)
         IN  <<m>> \o SortedNames(S \ {m})

\* lines 103-111: the names printed, in order
ListHistory(w) ==
    IF ~IsDir(w.fs, <<LOGS_DIR>>) THEN <<>>
    ELSE SortedNames(DOMAIN w.logs \cup (IF w.logFile THEN {LogFileName} ELSE {}))

\* ---------------------------------------------------------------- the program
\* The folder before the first command: up to two top-level files (the user
\* adds more later), and possibly a subfolder txt that holds a file a.txt
InitTops == {S \in SUBSET FileNames : Cardinality(S) <= 2}
InitNested == {<<TXT, A_TXT>>}

InitFs(top, nested) ==
    [p \in {<<n>> : n \in top} \cup nested \cup {<<q[1]>> : q \in nested} |->
        IF p \in nested \/ p[1] \in top THEN File(p, 0) ELSE Dir]

Init ==
    /\ folder \in Folders
    /\ root \in {"missing", "file", "dir"}
    /\ \E top \in InitTops, nested \in SUBSET InitNested :
          /\ \A q \in nested : q[1] \notin top
          /\ root # "dir" => top = {} /\ nested = {}
          /\ fs = InitFs(top, nested)
    /\ logFile = FALSE
    /\ logs = NoLogs
    /\ clock = 0
    /\ nPass = 0
    /\ nAdd = 0
    /\ exitError = FALSE
    /\ replayed = {}

\* The moves that fail for an external reason: files of the pass at hand
Denials(names) == SUBSET names

TopFiles(f) == {n \in FileNames : IsFile(f, <<n>>)}
RecordedFiles(lg) ==
    IF HistoryFiles(lg) = {} THEN {}
    ELSE LET acts == lg[LastOf(HistoryFiles(lg))].actions IN
         {acts[i].src[1] : i \in 1..Len(acts)}

\* lines 132-137: main with the organize command
MainOrganize(w, dry, prefix, denied, now, pass) ==
    IF SetupLoggingRaises(w) THEN [OrganizeBase(w) EXCEPT !.raised = TRUE]
    ELSE ScanAndOrganize(SetupLogging(w), dry, prefix, denied, now, pass)

\* lines 132-139: main with the undo command
MainUndo(w, fld, denied) ==
    IF SetupLoggingRaises(w) THEN [UndoBase(w) EXCEPT !.raised = TRUE]
    ELSE UndoLast(SetupLogging(w), fld, denied)

\* lines 132-141: main with the history command
MainHistory(w) ==
    IF SetupLoggingRaises(w) THEN [w |-> w, raised |-> TRUE, printed |-> <<>>]
    ELSE [w |-> SetupLogging(w), raised |-> FALSE, printed |-> ListHistory(SetupLogging(w))]

\* The commands on the state at hand
OrganizeRunWith(dry, prefix, denied) ==
    MainOrganize(World, dry, prefix, denied, clock, nPass + 1)
OrganizeRun(dry, denied) == OrganizeRunWith(dry, NoPrefix, denied)
UndoRun(denied) == MainUndo(World, folder, denied)

Install(w) ==
    /\ root' = w.root
    /\ fs' = w.fs
    /\ logFile' = w.logFile
    /\ logs' = w.logs

\* python file_organizer_enhanced.py organize <folder> [--dry-run] [--prefix P]
CmdOrganizeWith(dry, prefix, denied) ==
    /\ dry \/ nPass < MaxPass
    /\ \E r \in {OrganizeRunWith(dry, prefix, denied)} :
          /\ Install(r.w)
          /\ exitError' = r.raised
          /\ nPass' = IF r.wrote THEN nPass + 1 ELSE nPass
    /\ UNCHANGED <<folder, clock, nAdd, replayed>>

\* The organize command without --prefix
CmdOrganize(dry, denied) == CmdOrganizeWith(dry, NoPrefix, denied)

\* python file_organizer_enhanced.py undo <folder>
CmdUndo(denied) ==
    /\ \E r \in {UndoRun(denied)} :
          /\ Install(r.w)
          /\ exitError' = r.raised
          /\ replayed' = IF r.selected # <<>> THEN replayed \cup {r.pass} ELSE replayed
    /\ UNCHANGED <<folder, clock, nAdd, nPass>>

\* python file_organizer_enhanced.py history <folder>
CmdHistory ==
    /\ \E r \in {MainHistory(World)} :
          /\ Install(r.w)
          /\ exitError' = r.raised
    /\ UNCHANGED <<folder, clock, nAdd, nPass, replayed>>

\* The generation of a new file created at path p: one more than the files of
\* that origin that the folder holds
NextGen(f, p) ==
    LET used == {f[q].data.gen : q \in {x \in DOMAIN f : f[x].data.origin = p}} IN
    IF used = {} THEN 1 ELSE 1 + (CHOOSE g \in used : \A h \in used : h <= g)

\* The names of the files the user adds later: a file with an extension and a
\* file named like its category folder
AddNames == {A_TXT, TXT}

\* The user puts a new file into the folder
AddFile(n) ==
    /\ root = "dir"
    /\ nAdd < MaxAdd
    /\ ~Exists(fs, <<n>>)
    /\ fs' = Put(fs, <<n>>, File(<<n>>, NextGen(fs, <<n>>)))
    /\ nAdd' = nAdd + 1
    /\ UNCHANGED <<folder, root, logFile, logs, clock, exitError, nPass, replayed>>

\* A second of UTC time passes.  Seconds in which no pass wrote a history file
\* are not counted: they change no file name and no comparison of names.
Tick ==
    /\ \E n \in DOMAIN logs : SubSeq(n, 2, 3) = Timestamp(clock)
    /\ clock' = clock + 1
    /\ UNCHANGED <<folder, root, fs, logFile, logs, exitError, nPass, nAdd, replayed>>

Next ==
    \/ \E dry \in BOOLEAN, denied \in Denials(TopFiles(fs)) : CmdOrganize(dry, denied)
    \/ \E dry \in BOOLEAN, prefix \in Prefixes \ {NoPrefix} :
          CmdOrganizeWith(dry, prefix, {})
    \/ \E denied \in Denials(RecordedFiles(logs)) : CmdUndo(denied)
    \/ CmdHistory
    \/ \E n \in AddNames : AddFile(n)
    \/ Tick

Spec == Init /\ [][Next]_vars

\* ---------------------------------------------------------------- properties
\* The regular files of the folder with their contents
UserFiles(f) == {<<p, f[p].data>> : p \in {q \in DOMAIN f : f[q].kind = "file"}}

\* Everything in the folder but the log subdirectory
UserEntries(f) == [p \in DOMAIN f \ {<<LOGS_DIR>>} |-> f[p]]

\* The folder holds nothing but regular top-level files (and the log subdirectory)
OnlyTopLevelFiles(f) ==
    \A p \in DOMAIN f : p = <<LOGS_DIR>> \/ (Len(p) = 1 /\ f[p].kind = "file")

\* Path p holds the same thing in f and in g
SameAt(f, g, p) == (p \in DOMAIN f <=> p \in DOMAIN g) /\ (p \in DOMAIN f => f[p] = g[p])

UndoneName(n) == <<"undone_">> \o Tail(n)

Unreplayed == (1..nPass) \ replayed
Newest(S) == CHOOSE x \in S : \A y \in S : y <= x

\* C1: in every state the program reaches with the folder present, a
\* non-dry-run organize pass followed at once by an undo pass (no move failing
\* for an external reason) leaves every regular file, with its content, at the
\* path it had before the organize pass.
C1_RoundTripRestores ==
    root = "dir" =>
        LET o == OrganizeRun(FALSE, {})
            u == MainUndo(o.w, folder, {})
        IN  UserFiles(u.w.fs) = UserFiles(fs)

\* C2: a non-dry-run organize step on a folder that holds only top-level files
\* puts every one of them at <category>/<name>, the category being the
\* lowercase extension or no_ext, and leaves none of them at the top level.
C2_EveryFileInItsCategory ==
    [][(CmdOrganize(FALSE, {}) /\ root = "dir" /\ OnlyTopLevelFiles(fs)) =>
         \A n \in TopFiles(fs) :
            /\ IsFile(fs', <<Category(n), n>>)
            /\ fs'[<<Category(n), n>>].data = fs[<<n>>].data
            /\ ~Exists(fs', <<n>>)]_vars

\* C3: a dry-run organize step returns the plan the non-dry-run pass returns on
\* the same folder and changes nothing: no entry of the folder outside the log
\* subdirectory is created, moved or removed and no history file is written.
C3_DryRunChangesNothing ==
    [][(CmdOrganize(TRUE, {}) /\ root = "dir") =>
         /\ OrganizeRun(TRUE, {}).retNone = OrganizeRun(FALSE, {}).retNone
         /\ OrganizeRun(TRUE, {}).ret = OrganizeRun(FALSE, {}).ret
         /\ UserEntries(fs') = UserEntries(fs)
         /\ logs' = logs]_vars

\* C4: whenever an active history file exists, an undo pass replays exactly the
\* actions of the active file with the greatest name, and that file is the one
\* written by the most recent organize pass that has not been undone yet.
C4_UndoTakesNewestActive ==
    (root = "dir" /\ HistoryFiles(logs) # {}) =>
        LET u == UndoRun({}) IN
        /\ u.selected \in HistoryFiles(logs)
        /\ \A m \in HistoryFiles(logs) \ {u.selected} : NameLess(m, u.selected)
        /\ [i \in 1..Len(u.attempts) |-> u.attempts[i].act] = logs[u.selected].actions
        /\ Unreplayed # {}
        /\ u.pass = Newest(Unreplayed)

\* C5: no undo pass replays a history file that an earlier undo pass replayed.
C5_ReplayedAtMostOnce ==
    [][\A denied \in Denials(RecordedFiles(logs)) :
         (CmdUndo(denied) /\ UndoRun(denied).selected # <<>>) =>
             UndoRun(denied).pass \notin replayed]_vars

\* C6: a non-dry-run organize step that reaches the end of the move phase (it
\* ends without an exception and has written its history file) has moved every
\* planned file whose own move did not fail, whatever moves failed before it,
\* and its history file holds the whole plan in plan order.
C6_FailuresDoNotStopThePass ==
    [][\A denied \in Denials(TopFiles(fs)) :
         (nPass' = nPass + 1 /\ ~exitError' /\ CmdOrganize(FALSE, denied)) =>
            \A plan \in {OrganizeRun(FALSE, denied).ret} :
               /\ HistoryName(clock) \in DOMAIN logs'
               /\ logs'[HistoryName(clock)].actions = plan
               /\ \A n \in TopFiles(fs) : ~InLogsByName(n) =>
                     \E i \in 1..Len(plan) : plan[i].src = <<n>>
               /\ \A i \in 1..Len(plan) :
                     IF plan[i].src[1] \in denied
                     THEN Exists(fs', plan[i].src) /\ fs'[plan[i].src] = fs[plan[i].src]
                     ELSE /\ ~Exists(fs', plan[i].src)
                          /\ IsFile(fs', plan[i].dst)
                          /\ fs'[plan[i].dst] = fs[plan[i].src]]_vars

\* C6 witness: the newest history file, not undone, records a move that failed
\* (the file is still at its source, nothing is at its destination) before a
\* move that succeeded.
C6_Witness ==
    /\ HistoryFiles(logs) # {}
    /\ LET h == logs[LastOf(HistoryFiles(logs))] IN
       /\ h.pass \notin replayed
       /\ \E i, j \in 1..Len(h.actions) :
             /\ i < j
             /\ IsFile(fs, h.actions[i].src) /\ ~Exists(fs, h.actions[i].dst)
             /\ ~Exists(fs, h.actions[j].src) /\ IsFile(fs, h.actions[j].dst)

\* C7: an undo step skips the recorded actions whose destination is gone, moves
\* every other recorded file whose restoration does not fail back to its source,
\* ends without an exception and leaves the history file in its undone form.
C7_UndoToleratesFailures ==
    [][\A denied \in Denials(RecordedFiles(logs)) :
         (CmdUndo(denied) /\ root = "dir" /\ HistoryFiles(logs) # {}) =>
            LET sel == LastOf(HistoryFiles(logs))
                acts == logs[sel].actions
            IN
            /\ ~exitError'
            /\ sel \notin DOMAIN logs'
            /\ UndoneName(sel) \in DOMAIN logs'
            /\ \A i \in 1..Len(acts) :
                  IF ~Exists(fs, acts[i].dst)
                  THEN SameAt(fs', fs, acts[i].src)
                  ELSE acts[i].src[1] \notin denied =>
                         /\ ~Exists(fs', acts[i].dst)
                         /\ IsFile(fs', acts[i].src)
                         /\ fs'[acts[i].src] = fs[acts[i].dst]]_vars

\* C8: an undo step that processes history_<T>.json leaves no file of that name
\* and leaves undone_<T>.json, with the same content, in the log subdirectory.
C8_HistoryRenamedInPlace ==
    [][\A denied \in Denials(RecordedFiles(logs)) :
         (CmdUndo(denied) /\ root = "dir" /\ HistoryFiles(logs) # {}) =>
            LET sel == LastOf(HistoryFiles(logs)) IN
            /\ sel \notin DOMAIN logs'
            /\ UndoneName(sel) \in DOMAIN logs'
            /\ logs'[UndoneName(sel)] = logs[sel]]_vars

\* C9: an organize step on a path that is missing or is no directory reports
\* the error, returns no plan, leaves the filesystem as it was, writes no
\* history file and ends without an exception.
C9_BadFolderIsReported ==
    [][\A dry \in BOOLEAN :
         (CmdOrganize(dry, {}) /\ root # "dir") =>
            /\ OrganizeRun(dry, {}).errorLogged
            /\ OrganizeRun(dry, {}).retNone
            /\ root' = root /\ fs' = fs /\ logFile' = logFile /\ logs' = logs
            /\ ~exitError']_vars

\* C10: no command on an existing folder ends with an uncaught exception.
C10_NoUncaughtException == root = "dir" => ~exitError

\* C11: an undo step on a folder whose log subdirectory is absent or holds no
\* active history file reports that there is nothing to undo, changes nothing
\* in the folder or its log subdirectory and ends without an exception.
C11_NothingToUndoChangesNothing ==
    [][(CmdUndo({}) /\ root = "dir"
          /\ (~IsDir(fs, <<LOGS_DIR>>) \/ HistoryFiles(logs) = {})) =>
            /\ UndoRun({}).errorLogged
            /\ fs' = fs /\ logFile' = logFile /\ logs' = logs
            /\ ~exitError']_vars

\* C12: a history step changes nothing in the folder or its log subdirectory,
\* whether the log subdirectory exists or not, and a second history call right
\* after it prints the same list.
C12_HistoryIsReadOnly ==
    [][CmdHistory =>
         /\ root' = root /\ fs' = fs /\ logFile' = logFile /\ logs' = logs
         /\ MainHistory(MainHistory(World).w).printed = MainHistory(World).printed]_vars

\* C13: in every state, an organize pass (dry run or not) with any value of
\* --prefix returns the same plan, leaves the same folder and writes the same
\* history files as the pass without a prefix; so any two prefix values give
\* the same result.
C13_PrefixHasNoEffect ==
    \A dry \in BOOLEAN :
        \A r \in {OrganizeRunWith(dry, NoPrefix, {})} :
            \A p \in Prefixes \ {NoPrefix} : OrganizeRunWith(dry, p, {}) = r

\* C13 witness: a pass has moved a file to its category folder and recorded it,
\* and a pass with a non-empty prefix would plan a move now.
C13_Witness ==
    /\ root = "dir"
    /\ \E n \in DOMAIN logs : \E i \in 1..Len(logs[n].actions) :
          IsFile(fs, logs[n].actions[i].dst)
    /\ \E p \in Prefixes \ {NoPrefix} : OrganizeRunWith(FALSE, p, {}).ret # <<>>

\* C14: in every state with the folder present, the plan of an organize pass
\* that ends without an exception holds exactly one action for every regular
\* top-level file, in listing order, whatever the name of the file is, and
\* nothing else.
C14_PlanCoversEveryTopLevelFile ==
    \A r \in {OrganizeRun(TRUE, {})} :
        (root = "dir" /\ ~r.raised) =>
            LET Regular(n) == IsFile(fs, <<n>>) IN
            [i \in 1..Len(r.ret) |-> r.ret[i].src] =
                [i \in 1..Len(SelectSeq(ListDir(fs), Regular)) |->
                    <<SelectSeq(ListDir(fs), Regular)[i]>>]

\* The contents of the history and undone files of a log subdirectory
LogContents(lg) == {lg[n] : n \in DOMAIN lg}

\* C15: a completed non-dry-run organize step adds one history file under a new
\* name and leaves every existing history and undone file as it was; an undo
\* step changes no file but the one it renames and loses no content.
C15_HistoryFilesAreNeverOverwritten ==
    [][/\ \A denied \in Denials(TopFiles(fs)) :
            (nPass' = nPass + 1 /\ CmdOrganize(FALSE, denied)) =>
               /\ HistoryName(clock) \notin DOMAIN logs
               /\ DOMAIN logs' = DOMAIN logs \cup {HistoryName(clock)}
               /\ \A n \in DOMAIN logs : logs'[n] = logs[n]
       /\ \A denied \in Denials(RecordedFiles(logs)) :
            (CmdUndo(denied) /\ root = "dir" /\ HistoryFiles(logs) # {}) =>
               /\ \A n \in DOMAIN logs \ {LastOf(HistoryFiles(logs))} :
                     n \in DOMAIN logs' /\ logs'[n] = logs[n]
               /\ LogContents(logs) \subseteq LogContents(logs')]_vars

\* The names of the files anywhere in the folder
NamesIn(f) == {p[Len(p)] : p \in {q \in DOMAIN f : f[q].kind = "file"}}

\* The world w with the new top-level file n
WithFile(w, n) == [w EXCEPT !.fs = Put(w.fs, <<n>>, File(<<n>>, NextGen(w.fs, <<n>>)))]

\* Two organize passes, a second apart, with the new file n put into the folder
\* between them, then two undo passes; no move fails for an external reason
TwoPassesTwoUndos(n) ==
    LET o1 == MainOrganize(World, FALSE, NoPrefix, {}, clock, nPass + 1)
        o2 == MainOrganize(WithFile(o1.w, n), FALSE, NoPrefix, {}, clock + 1, nPass + 2)
        u1 == MainUndo(o2.w, folder, {})
        u2 == MainUndo(u1.w, folder, {})
    IN  [raised |-> o1.raised \/ o2.raised \/ u1.raised \/ u2.raised,
         added |-> WithFile(o1.w, n).fs[<<n>>],
         first |-> u1.pass, second |-> u2.pass, w |-> u2.w]

\* C16: in every state with the folder present and no active history file, two
\* organize passes with a file of a new name added between them, followed by
\* two undo passes, none ending with an exception, put every file back at its
\* path: the first undo reverts the second pass, the second undo the first, and
\* no active history file is left.
C16_UndoUnwindsThePasses ==
    (root = "dir" /\ HistoryFiles(logs) = {}) =>
        \A n \in AddNames \ NamesIn(fs) :
            \A t \in {TwoPassesTwoUndos(n)} :
                ~t.raised =>
                    /\ t.first = nPass + 2
                    /\ t.second = nPass + 1
                    /\ HistoryFiles(t.w.logs) = {}
                    /\ UserFiles(t.w.fs) = UserFiles(fs) \cup {<<<<n>>, t.added.data>>}

\* The contents of the regular files anywhere in the folder
UserContents(f) == {f[p].data : p \in {q \in DOMAIN f : f[q].kind = "file"}}

\* C17: no organize or undo step, whatever moves fail, loses the content of a
\* user file: the set of file contents in the folder is the same after the step.
C17_NoUserFileIsDestroyed ==
    [][/\ \A dry \in BOOLEAN, denied \in Denials(TopFiles(fs)) :
            CmdOrganize(dry, denied) => UserContents(fs') = UserContents(fs)
       /\ \A denied \in Denials(RecordedFiles(logs)) :
            CmdUndo(denied) => UserContents(fs') = UserContents(fs)]_vars

\* C18: in every non-dry-run organize step that goes through the move phase
\* (it writes its history file after it), whatever moves fail, the category
\* folder of every planned destination is there when the move of that action is
\* attempted.
C18_CategoryFolderExistsAtMove ==
    [][\A denied \in Denials(TopFiles(fs)) :
         (nPass' = nPass + 1 /\ CmdOrganize(FALSE, denied)) =>
            \A r \in {OrganizeRun(FALSE, denied)} :
               \A i \in 1..Len(r.attempts) : r.attempts[i].dirThere]_vars

\* C18 witness: a pass that has not been undone created a category folder and
\* moved a file into it, and a pass run now would attempt a move.
C18_Witness ==
    /\ \E n \in HistoryFiles(logs) : \E i \in 1..Len(logs[n].actions) :
          /\ logs[n].pass \notin replayed
          /\ IsDir(fs, <<logs[n].actions[i].dst[1]>>)
          /\ IsFile(fs, logs[n].actions[i].dst)
          /\ ~Exists(fs, logs[n].actions[i].src)
    /\ OrganizeRun(FALSE, {}).attempts # <<>>

====
